---- MODULE Spec2Model ----
(***************************************************************************)
(* Model of src/rules/font_face.rs (parcel-css): the descriptors of an     *)
(* @font-face block, their parsers (Source, UrlSource, FontFormat,         *)
(* FontTechnology, UnicodeRange, FontFaceDeclarationParser::parse_value)   *)
(* and their serializers (UnicodeRange::to_css, FontFaceRule::to_css).     *)
(*                                                                         *)
(* Text is a sequence of one-character strings, a token is a record        *)
(* [k |-> kind, v |-> text], a token cursor is an index into the token     *)
(* sequence together with the exclusive end of the enclosing delimited or  *)
(* nested parser.                                                          *)
(***************************************************************************)
EXTENDS Integers, Sequences, FiniteSets, TLC

VARIABLES
  \* ---- UnicodeRange codec
  start, end,          \* the UnicodeRange being serialized
  dest,                \* the text written by UnicodeRange::to_css
  parsed,              \* the result of parsing dest again
  rpc,                 \* "init" -> "printed" -> "parsed"
  \* ---- FontFaceDeclarationParser::parse_value
  name,                \* the descriptor name handed to parse_value
  toks,                \* the value token sequence
  pos,                 \* the token cursor
  state,               \* the cursor position parse_value saved (input.state())
  pc,                  \* "start" -> "src" -> "attempted" -> "done"
  sources,             \* the sources pushed so far by parse_comma_separated
  items,               \* one trace entry per call of Source::parse
  attempt,             \* outcome of the typed attempt
  result,              \* what parse_value returns
  \* ---- FontFaceRule::to_css
  properties, minify,  \* the rule and the printer's mode
  out,                 \* the text fragments written so far
  idx,                 \* loop index of the properties loop
  wpc                  \* "begin" -> "loop" -> "end" -> "done"

vars == <<start, end, dest, parsed, rpc,
          name, toks, pos, state, pc, sources, items, attempt, result,
          properties, minify, out, idx, wpc>>

rangeVars == <<start, end, dest, parsed, rpc>>
parseVars == <<name, toks, pos, state, pc, sources, items, attempt, result>>
ruleVars  == <<properties, minify, out, idx, wpc>>

\* ---------------------------------------------------------------- bounds
\* number of descriptors of the rule handed to FontFaceRule::to_css
MaxProperties == 3
\* number of atoms (a token, or one function with its block) of a src value
MaxSrcAtoms == 3
\* number of atoms of the value of an arbitrary descriptor
MaxDeclAtoms == 3
\* number of free hex digits of the code points the range codec is fed
MaxHexDigits == 3

\* ------------------------------------------------------------- generic
RECURSIVE Pow(_, _)
Pow(b, n) == IF n = 0 THEN 1 ELSE b * Pow(b, n - 1)

RECURSIVE Concat(_)
Concat(ss) == IF ss = <<>> THEN <<>> ELSE Head(ss) \o Concat(Tail(ss))

\* ======================================================= UnicodeRange codec
\* Largest code point (char::MAX); UnicodeRange.end is in [0, 0x10FFFF].
MaxCodePoint == 1114111

HexChars == <<"0","1","2","3","4","5","6","7","8","9","A","B","C","D","E","F">>

\* write!(dest, "{:X}", v): upper-case hexadecimal without leading zeros
RECURSIVE UpperHex(_)
UpperHex(v) ==
  IF v < 16 THEN <<HexChars[v + 1]>>
  ELSE UpperHex(v \div 16) \o <<HexChars[(v % 16) + 1]>>

\* x & (0xf << shift) on u32
AndDigitMask(x, shift) == ((x \div Pow(2, shift)) % 16) * Pow(2, shift)

\* The loop of lines 373-384: starting at shift = 24, walk down one hex
\* digit at a time while the digits of start and end under the mask agree;
\* the value of shift when the loop is left.
RECURSIVE DiffShiftFrom(_, _, _)
DiffShiftFrom(s, e, shift) ==
  IF shift > 0
  THEN IF AndDigitMask(s, shift) # AndDigitMask(e, shift)
       THEN shift
       ELSE DiffShiftFrom(s, e, shift - 4)
  ELSE shift

\* while shift > 0 { write_char('?'); shift -= 4 }
RECURSIVE QuestionMarks(_)
QuestionMarks(shift) ==
  IF shift > 0 THEN <<"?">> \o QuestionMarks(shift - 4) ELSE <<>>

\* lines 410-414: "U+{:X}" and, when end differs, "-{:X}"
PlainForm(s, e) ==
  <<"U", "+">> \o UpperHex(s) \o (IF e # s THEN <<"-">> \o UpperHex(e) ELSE <<>>)

\* line 393 without the test of the end remainder
CompressibleStartOnly(start_remainder, end_remainder, remainder_mask) ==
  start_remainder = 0

\* line 393 without the test of the start remainder
CompressibleEndOnly(start_remainder, end_remainder, remainder_mask) ==
  end_remainder = remainder_mask

\* The test of line 393 on the two remainders.
Compressible(start_remainder, end_remainder, remainder_mask) ==
  start_remainder = 0 /\ end_remainder = remainder_mask

\* impl ToCss for UnicodeRange
UnicodeRangeToCss(s, e) ==
  IF s # e
  THEN LET shift == DiffShiftFrom(s, e, 24) + 4
           remainder_mask == Pow(2, shift) - 1
           start_remainder == s % Pow(2, shift)
           end_remainder == e % Pow(2, shift)
       IN IF Compressible(start_remainder, end_remainder, remainder_mask)
          THEN LET st == (s - start_remainder) \div Pow(2, shift)
               IN (IF st # 0 THEN <<"U", "+">> \o UpperHex(st) ELSE <<"U", "+">>)
                  \o QuestionMarks(shift)
          ELSE PlainForm(s, e)
  ELSE PlainForm(s, e)

\* ---- cssparser::UnicodeRange::parse on the text of one range
HexValue(c) ==
  CASE c \in {"0","1","2","3","4","5","6","7","8","9"} ->
         (CHOOSE i \in 1..10 : HexChars[i] = c) - 1
    [] c \in {"A","B","C","D","E","F"} ->
         (CHOOSE i \in 11..16 : HexChars[i] = c) - 1
    [] c = "a" -> 10 [] c = "b" -> 11 [] c = "c" -> 12
    [] c = "d" -> 13 [] c = "e" -> 14 [] c = "f" -> 15
    [] OTHER -> -1

\* consume_hex: the value and the count of the leading hex digits, and the rest
RECURSIVE ConsumeHex(_, _, _)
ConsumeHex(text, value, digits) ==
  IF text # <<>> /\ HexValue(Head(text)) >= 0
  THEN ConsumeHex(Tail(text), value * 16 + HexValue(Head(text)), digits + 1)
  ELSE [value |-> value, digits |-> digits, rest |-> text]

\* consume_question_marks
RECURSIVE ConsumeQuestionMarks(_, _)
ConsumeQuestionMarks(text, n) ==
  IF text # <<>> /\ Head(text) = "?"
  THEN ConsumeQuestionMarks(Tail(text), n + 1)
  ELSE [count |-> n, rest |-> text]

NoRange == [ok |-> FALSE, start |-> 0, end |-> 0]
OkRange(s, e) == [ok |-> TRUE, start |-> s, end |-> e]

\* parse_concatenated on the text that follows the "u"
ParseConcatenated(text) ==
  IF text = <<>> \/ Head(text) # "+" THEN NoRange
  ELSE
    LET h == ConsumeHex(Tail(text), 0, 0)
        q == ConsumeQuestionMarks(h.rest, 0)
        consumed == h.digits + q.count
    IN IF consumed = 0 \/ consumed > 6 THEN NoRange
       ELSE IF q.count > 0
            THEN IF q.rest = <<>>
                 THEN OkRange(h.value * Pow(16, q.count),
                              (h.value + 1) * Pow(16, q.count) - 1)
                 ELSE NoRange
            ELSE IF q.rest = <<>> THEN OkRange(h.value, h.value)
            ELSE IF Head(q.rest) = "-"
                 THEN LET h2 == ConsumeHex(Tail(q.rest), 0, 0)
                      IN IF h2.digits > 0 /\ h2.digits <= 6 /\ h2.rest = <<>>
                         THEN OkRange(h.value, h2.value)
                         ELSE NoRange
                 ELSE NoRange

\* impl Parse for UnicodeRange: expect_ident_matching("u"), the concatenated
\* tokens, then the range check end <= char::MAX and start <= end.
UnicodeRangeParse(text) ==
  IF text = <<>> \/ Head(text) \notin {"U", "u"} THEN NoRange
  ELSE LET r == ParseConcatenated(Tail(text))
       IN IF r.ok /\ (r.end > MaxCodePoint \/ r.start > r.end) THEN NoRange ELSE r

\* ================================================================== text
UpperAlpha == <<"A","B","C","D","E","F","G","H","I","J","K","L","M",
                "N","O","P","Q","R","S","T","U","V","W","X","Y","Z">>
LowerAlpha == <<"a","b","c","d","e","f","g","h","i","j","k","l","m",
                "n","o","p","q","r","s","t","u","v","w","x","y","z">>

\* str::to_ascii_lowercase, as match_ignore_ascii_case! applies it
ToAsciiLowercase(s) ==
  [i \in 1..Len(s) |->
     IF \E j \in 1..26 : UpperAlpha[j] = s[i]
     THEN LowerAlpha[CHOOSE j \in 1..26 : UpperAlpha[j] = s[i]]
     ELSE s[i]]

EqIgnoreAsciiCase(a, b) == ToAsciiLowercase(a) = ToAsciiLowercase(b)

S_format == <<"f","o","r","m","a","t">>
S_tech == <<"t","e","c","h">>
S_local == <<"l","o","c","a","l">>
S_src == <<"s","r","c">>
S_font_family == <<"f","o","n","t","-","f","a","m","i","l","y">>
S_font_weight == <<"f","o","n","t","-","w","e","i","g","h","t">>
S_font_style == <<"f","o","n","t","-","s","t","y","l","e">>
S_font_stretch == <<"f","o","n","t","-","s","t","r","e","t","c","h">>
S_unicode_range == <<"u","n","i","c","o","d","e","-","r","a","n","g","e">>
S_woff == <<"w","o","f","f">>
S_woff2 == <<"w","o","f","f","2">>
S_truetype == <<"t","r","u","e","t","y","p","e">>
S_opentype == <<"o","p","e","n","t","y","p","e">>
S_embedded_opentype == <<"e","m","b","e","d","d","e","d","-","o","p","e","n","t","y","p","e">>
S_collection == <<"c","o","l","l","e","c","t","i","o","n">>
S_svg == <<"s","v","g">>
S_variations == <<"v","a","r","i","a","t","i","o","n","s">>
S_palettes == <<"p","a","l","e","t","t","e","s">>
S_incremental == <<"i","n","c","r","e","m","e","n","t","a","l">>
S_features_opentype == <<"f","e","a","t","u","r","e","s","-","o","p","e","n","t","y","p","e">>
S_features_aat == <<"f","e","a","t","u","r","e","s","-","a","a","t">>
S_features_graphite == <<"f","e","a","t","u","r","e","s","-","g","r","a","p","h","i","t","e">>
S_color_colrv0 == <<"c","o","l","o","r","-","c","o","l","r","v","0">>
S_color_colrv1 == <<"c","o","l","o","r","-","c","o","l","r","v","1">>
S_color_svg == <<"c","o","l","o","r","-","s","v","g">>
S_color_sbix == <<"c","o","l","o","r","-","s","b","i","x">>
S_color_cbdt == <<"c","o","l","o","r","-","c","b","d","t">>
S_italic == <<"i","t","a","l","i","c">>
S_normal == <<"n","o","r","m","a","l">>

\* ================================================================ tokens
\* kinds: "url" (an unquoted url token), "function" (name followed by an
\* opening parenthesis), "close", "ident", "string", "comma", "number",
\* "urange" (the tokens of one unicode-range, concatenated) and "ws" (white
\* space holding a line break).
Tok(k, v) == [k |-> k, v |-> v]

\* ------------------------------------------------- cssparser::Parser
Ok(val, p) == [ok |-> TRUE, err |-> "", pos |-> p, val |-> val]
Err(e, p)  == [ok |-> FALSE, err |-> e, pos |-> p, val |-> <<>>]

\* Parser::skip_whitespace inside a parser that ends before index e
RECURSIVE SkipWs(_, _, _)
SkipWs(ts, p, e) ==
  IF p < e /\ ts[p].k = "ws" THEN SkipWs(ts, p + 1, e) ELSE p

\* Parser::next: the next token that is not white space
TokenAt(ts, q, e) == IF q >= e THEN Err("EndOfInput", q) ELSE Ok(ts[q], q + 1)

ParserNext(ts, p, e) == TokenAt(ts, SkipWs(ts, p, e), e)

\* Parser::is_exhausted
IsExhausted(ts, p, e) == SkipWs(ts, p, e) >= e

\* The index of the parenthesis that closes the block entered before p
\* (e when the block is not closed).
RECURSIVE BlockEnd(_, _, _, _)
BlockEnd(ts, p, e, depth) ==
  IF p >= e THEN e
  ELSE IF ts[p].k = "function" THEN BlockEnd(ts, p + 1, e, depth + 1)
  ELSE IF ts[p].k = "close"
       THEN IF depth = 0 THEN p ELSE BlockEnd(ts, p + 1, e, depth - 1)
  ELSE BlockEnd(ts, p + 1, e, depth)

\* Where parse_until_before(Delimiter::Comma) stops: the first comma at or
\* after p that is outside every block (e when there is none).
RECURSIVE NextComma(_, _, _)
NextComma(ts, p, e) ==
  IF p >= e THEN e
  ELSE IF ts[p].k = "comma" THEN p
  ELSE IF ts[p].k = "function"
       THEN (IF BlockEnd(ts, p + 1, e, 0) >= e THEN e
             ELSE NextComma(ts, BlockEnd(ts, p + 1, e, 0) + 1, e))
  ELSE NextComma(ts, p + 1, e)

\* Parser::parse_entirely: the result of the closure, then expect_exhausted
ParseEntirely(ts, r, e) ==
  IF r.ok /\ ~IsExhausted(ts, r.pos, e) THEN Err("UnexpectedToken", r.pos) ELSE r

\* The position after a nested block whose content starts at p.
Behind(c, e) == IF c >= e THEN e ELSE c + 1

AfterBlock(ts, p, e) == Behind(BlockEnd(ts, p, e, 0), e)

\* Parser::expect_function_matching(name)
FunctionMatching(n, fname) ==
  IF ~n.ok THEN n
  ELSE IF n.val.k = "function" /\ EqIgnoreAsciiCase(n.val.v, fname)
       THEN Ok(n.val, n.pos)
       ELSE Err("UnexpectedToken", n.pos)

ExpectFunctionMatching(ts, p, e, fname) == FunctionMatching(ParserNext(ts, p, e), fname)

\* Parser::current_source_location after the first n tokens were read:
\* lines count from 0, columns from 1.
TokWidth(t) ==
  CASE t.k = "url" -> Len(t.v) + 5
    [] t.k = "function" -> Len(t.v) + 1
    [] t.k = "string" -> Len(t.v) + 2
    [] t.k \in {"close", "comma"} -> 1
    [] OTHER -> Len(t.v)

RECURSIVE LocationAfter(_, _)
LocationAfter(ts, n) ==
  IF n = 0 THEN [line |-> 0, column |-> 1]
  ELSE LET l == LocationAfter(ts, n - 1)
       IN IF ts[n].k = "ws"
          THEN [line |-> l.line + 1, column |-> 1]
          ELSE [line |-> l.line, column |-> l.column + TokWidth(ts[n])]

CurrentSourceLocation(ts, p) == LocationAfter(ts, p - 1)

\* ============================================================ FontFormat
FormatValue(variant, s) == [variant |-> variant, s |-> s]

\* impl Parse for FontFormat
FormatOfKeyword(s, verbatim) ==
  CASE s = S_woff -> FormatValue("WOFF", <<>>)
    [] s = S_woff2 -> FormatValue("WOFF2", <<>>)
    [] s = S_truetype -> FormatValue("TrueType", <<>>)
    [] s = S_opentype -> FormatValue("OpenType", <<>>)
    [] s = S_embedded_opentype -> FormatValue("EmbeddedOpenType", <<>>)
    [] s = S_collection -> FormatValue("Collection", <<>>)
    [] s = S_svg -> FormatValue("SVG", <<>>)
    [] OTHER -> FormatValue("String", verbatim)

\* n is the outcome of expect_ident_or_string
FontFormatOfToken(n) ==
  IF ~n.ok THEN n
  ELSE IF n.val.k \notin {"ident", "string"} THEN Err("UnexpectedToken", n.pos)
  ELSE Ok(FormatOfKeyword(ToAsciiLowercase(n.val.v), n.val.v), n.pos)

FontFormatParse(ts, p, e) == FontFormatOfToken(ParserNext(ts, p, e))

\* ======================================================== FontTechnology
\* line 299 taking an identifier or a string, as FontFormat::parse does
TechnologyTokenKindsWithString == {"ident", "string"}

\* The token kinds FontTechnology::parse matches keywords in (line 299).
TechnologyTokenKinds == {"ident"}

\* What the last arm of the keyword match returns (lines 312-314).
UnknownTechnology(p) == Err("UnexpectedToken", p)

\* the keyword match of lines 300-315 on the lower-cased identifier s
TechnologyOfKeyword(s, p) ==
  CASE s = S_variations -> Ok("Variations", p)
    [] s = S_palettes -> Ok("Palettes", p)
    [] s = S_incremental -> Ok("Incremental", p)
    [] s = S_features_opentype -> Ok("FeaturesOpentype", p)
    [] s = S_features_aat -> Ok("FeaturesAat", p)
    [] s = S_features_graphite -> Ok("FeaturesGraphite", p)
    [] s = S_color_colrv0 -> Ok("ColorColrv0", p)
    [] s = S_color_colrv1 -> Ok("ColorColrv1", p)
    [] s = S_color_svg -> Ok("ColorSvg", p)
    [] s = S_color_sbix -> Ok("ColorSbix", p)
    [] s = S_color_cbdt -> Ok("ColorCbdt", p)
    [] OTHER -> UnknownTechnology(p)

\* the match of lines 298-318 on n, the outcome of input.next()
FontTechnologyOfToken(n) ==
  IF ~n.ok THEN n
  ELSE IF n.val.k \in TechnologyTokenKinds
       THEN TechnologyOfKeyword(ToAsciiLowercase(n.val.v), n.pos)
       ELSE Err("UnexpectedToken", n.pos)

\* impl Parse for FontTechnology
FontTechnologyParse(ts, p, e) == FontTechnologyOfToken(ParserNext(ts, p, e))

\* One record per call of FontTechnology::parse: the token it was given
\* (k = "eof" at the end of the input) and what it returned.
TechCall(ts, q, e, r) ==
  [tok |-> IF q < e THEN ts[q] ELSE Tok("eof", <<>>), ok |-> r.ok, err |-> r.err]

TechList(ok, err, p, val, calls) ==
  [ok |-> ok, err |-> err, pos |-> p, val |-> val, calls |-> calls]

\* Vec::<FontTechnology>::parse: parse_comma_separated(FontTechnology::parse).
\* val holds the technologies, calls the trace of the calls made.
RECURSIVE TechListFrom(_, _, _, _, _)

\* after one item (the outcome r of parse_until_before, up to the comma c)
TechListAfter(ts, e, acc, calls, c, r) ==
  IF ~r.ok THEN TechList(FALSE, r.err, c, <<>>, calls)
  ELSE IF c < e THEN TechListFrom(ts, c + 1, e, Append(acc, r.val), calls)
  ELSE TechList(TRUE, "", c, Append(acc, r.val), calls)

\* one item: FontTechnology::parse returned one
TechListItem(ts, p, e, acc, calls, c, one) ==
  TechListAfter(ts, e, acc, Append(calls, TechCall(ts, SkipWs(ts, p, c), c, one)),
                c, ParseEntirely(ts, one, c))

TechListUntil(ts, p, e, acc, calls, c) ==
  TechListItem(ts, p, e, acc, calls, c, FontTechnologyParse(ts, p, c))

TechListFrom(ts, p, e, acc, calls) ==
  TechListUntil(ts, p, e, acc, calls, NextComma(ts, p, e))

TechnologyListParse(ts, p, e) == TechListFrom(ts, p, e, <<>>, <<>>)

\* ============================================================= UrlSource
NoLocation == [set |-> FALSE, line |-> 0, column |-> 0]
SomeLocation(l) == [set |-> TRUE, line |-> l.line, column |-> l.column]
NoFormat == [present |-> FALSE, variant |-> "", s |-> <<>>]
SomeFormat(f) == [present |-> TRUE, variant |-> f.variant, s |-> f.s]

\* Url::parse: input.expect_url()
UrlOfToken(n) ==
  IF ~n.ok THEN n
  ELSE IF n.val.k = "url" THEN Ok(n.val.v, n.pos)
  ELSE Err("UnexpectedToken", n.pos)

UrlParse(ts, p, e) == UrlOfToken(ParserNext(ts, p, e))

\* The outcome of UrlSource::parse, with the two locations it recorded and
\* the calls of FontTechnology::parse it made.
UrlOutcome(ok, err, p, url, format, tech, floc, tloc, calls) ==
  [ok |-> ok, err |-> err, pos |-> p, url |-> url, format |-> format,
   tech |-> tech, format_location |-> floc, tech_location |-> tloc,
   calls |-> calls]

UrlFailure(err, p, floc, tloc, calls) ==
  UrlOutcome(FALSE, err, p, <<>>, NoFormat, <<>>, floc, tloc, calls)

\* lines 134 and 139 with the comparisons turned round
OrderingViolationReversed(tech_location, location) ==
  \/ tech_location.line > location.line
  \/ tech_location.line = location.line /\ tech_location.column > location.column

\* The two tests of lines 134 and 139.
OrderingViolation(tech_location, location) ==
  \/ tech_location.line < location.line
  \/ tech_location.line = location.line /\ tech_location.column < location.column

\* The result r of the closure of parse_nested_block, for the block whose
\* content starts at p: the cursor ends behind the block.
NestedBlock(ts, p, e, c, r) ==
  [ParseEntirely(ts, r, c) EXCEPT !.pos = AfterBlock(ts, p, e)]

\* input.parse_nested_block(FontFormat::parse)
FormatBlockUntil(ts, p, e, c) == NestedBlock(ts, p, e, c, FontFormatParse(ts, p, c))

FormatBlockParse(ts, p, e) == FormatBlockUntil(ts, p, e, BlockEnd(ts, p, e, 0))

\* input.parse_nested_block(Vec::<FontTechnology>::parse)
TechBlockBehind(ts, p, e, r) == [r EXCEPT !.pos = AfterBlock(ts, p, e)]

TechBlockParse(ts, p, e) ==
  TechBlockBehind(ts, p, e, TechnologyListParse(ts, p, BlockEnd(ts, p, e, 0)))

\* line 147 and 152: the technology list tl was parsed
UrlSourceTechList(url, format, floc, tloc, tl) ==
  IF ~tl.ok THEN UrlFailure(tl.err, tl.pos, floc, tloc, tl.calls)
  ELSE UrlOutcome(TRUE, "", tl.pos, url, format, tl.val, floc, tloc, tl.calls)

\* lines 131-147: tech( was read, the cursor is at p behind it; tloc is the
\* location taken at line 133 (taken only when a format location exists)
UrlSourceTechAt(ts, p, e, url, format, floc, tloc) ==
  IF floc.set /\ OrderingViolation(tloc, floc)
  THEN UrlFailure("AtRuleBodyInvalid", p, floc, tloc, <<>>)
  ELSE UrlSourceTechList(url, format, floc, tloc, TechBlockParse(ts, p, e))

\* line 130: tTry is the outcome of try_parse(expect_function_matching("tech"))
UrlSourceTechTry(ts, p, e, url, format, floc, tTry) ==
  IF ~tTry.ok
  THEN UrlOutcome(TRUE, "", p, url, format, <<>>, floc, NoLocation, <<>>)
  ELSE UrlSourceTechAt(ts, tTry.pos, e, url, format, floc,
                       IF floc.set
                       THEN SomeLocation(CurrentSourceLocation(ts, tTry.pos))
                       ELSE NoLocation)

\* lines 130-152: the part of UrlSource::parse after the format step
UrlSourceTech(ts, p, e, url, format, floc) ==
  UrlSourceTechTry(ts, p, e, url, format, floc,
                   ExpectFunctionMatching(ts, p, e, S_tech))

\* line 125: the format block was parsed with outcome f
UrlSourceFormatBlock(ts, e, url, floc, f) ==
  IF ~f.ok THEN UrlFailure(f.err, f.pos, floc, NoLocation, <<>>)
  ELSE UrlSourceTech(ts, f.pos, e, url, SomeFormat(f.val), floc)

\* lines 122-128: fTry is the outcome of
\* try_parse(expect_function_matching("format")) at the cursor p
UrlSourceFormatTry(ts, p, e, url, fTry) ==
  IF fTry.ok
  THEN UrlSourceFormatBlock(ts, e, url,
                            SomeLocation(CurrentSourceLocation(ts, fTry.pos)),
                            FormatBlockParse(ts, fTry.pos, e))
  ELSE UrlSourceTech(ts, p, e, url, NoFormat, NoLocation)

\* line 120: u is the outcome of Url::parse
UrlSourceUrl(ts, e, u) ==
  IF ~u.ok THEN UrlFailure(u.err, u.pos, NoLocation, NoLocation, <<>>)
  ELSE UrlSourceFormatTry(ts, u.pos, e, u.val,
                          ExpectFunctionMatching(ts, u.pos, e, S_format))

\* impl Parse for UrlSource
UrlSourceParse(ts, p, e) == UrlSourceUrl(ts, e, UrlParse(ts, p, e))

\* ================================================================ Source
\* FontFamily::parse (properties/font.rs): a string, or a run of identifiers
RECURSIVE IdentRun(_, _, _, _)
IdentRun(ts, p, e, acc) ==
  LET n == ParserNext(ts, p, e)
  IN IF n.ok /\ n.val.k = "ident" THEN IdentRun(ts, n.pos, e, acc \o n.val.v)
     ELSE Ok(acc, p)

FontFamilyOfToken(ts, e, n) ==
  IF ~n.ok THEN n
  ELSE IF n.val.k = "string" THEN Ok(n.val.v, n.pos)
  ELSE IF n.val.k = "ident" THEN IdentRun(ts, n.pos, e, n.val.v)
  ELSE Err("UnexpectedToken", n.pos)

FontFamilyParse(ts, p, e) == FontFamilyOfToken(ts, e, ParserNext(ts, p, e))

\* input.parse_nested_block(FontFamily::parse)
FamilyBlockUntil(ts, p, e, c) == NestedBlock(ts, p, e, c, FontFamilyParse(ts, p, c))

FamilyBlockParse(ts, p, e) == FamilyBlockUntil(ts, p, e, BlockEnd(ts, p, e, 0))

\* The outcome of Source::parse: kind is "Url" or "Local" on success, url
\* the outcome of the UrlSource attempt, local whether local() was tried.
SourceOutcome(ok, err, p, kind, url, local, family) ==
  [ok |-> ok, err |-> err, pos |-> p, kind |-> kind, url |-> url,
   local |-> local, family |-> family]

\* The error kind the second arm of the match of lines 71-80 returns at once.
FatalUrlError == "AtRuleBodyInvalid"

\* line 83-84: the family name inside local( was parsed with outcome f
SourceLocalFamily(url, f) ==
  IF ~f.ok THEN SourceOutcome(FALSE, f.err, f.pos, "", url, TRUE, <<>>)
  ELSE SourceOutcome(TRUE, "", f.pos, "Local", url, TRUE, f.val)

\* line 82: l is the outcome of expect_function_matching("local")
SourceLocalTry(ts, e, url, l) ==
  IF ~l.ok THEN SourceOutcome(FALSE, l.err, l.pos, "", url, TRUE, <<>>)
  ELSE SourceLocalFamily(url, FamilyBlockParse(ts, l.pos, e))

\* lines 82-84: the item must be local(<family-name>)
SourceLocal(ts, p, e, url) ==
  SourceLocalTry(ts, e, url, ExpectFunctionMatching(ts, p, e, S_local))

\* lines 71-84 with UrlSource::parse called without try_parse: the cursor
\* stays where the failed attempt left it
SourceMatchNoRewind(ts, p, e, url) ==
  IF url.ok THEN SourceOutcome(TRUE, "", url.pos, "Url", url, FALSE, <<>>)
  ELSE IF url.err = FatalUrlError
       THEN SourceOutcome(FALSE, url.err, url.pos, "", url, FALSE, <<>>)
       ELSE SourceLocal(ts, url.pos, e, url)

\* lines 71-84: url is the outcome of try_parse(UrlSource::parse), which
\* rewinds the cursor to p when the outcome is an error
SourceMatch(ts, p, e, url) ==
  IF url.ok THEN SourceOutcome(TRUE, "", url.pos, "Url", url, FALSE, <<>>)
  ELSE IF url.err = FatalUrlError
       THEN SourceOutcome(FALSE, url.err, p, "", url, FALSE, <<>>)
       ELSE SourceLocal(ts, p, e, url)

\* impl Parse for Source
SourceParse(ts, p, e) == SourceMatch(ts, p, e, UrlSourceParse(ts, p, e))

\* The Source value of a successful outcome.
SourceValue(r) ==
  [kind |-> r.kind,
   url |-> IF r.kind = "Url" THEN r.url.url ELSE <<>>,
   format |-> IF r.kind = "Url" THEN r.url.format ELSE NoFormat,
   tech |-> IF r.kind = "Url" THEN r.url.tech ELSE <<>>,
   family |-> r.family]

\* One turn of the loop of parse_comma_separated(Source::parse): the item
\* runs from p to the next comma c; parse_until_before checks that the item
\* is exhausted and leaves the cursor at that comma whatever the outcome.
SourceItemOf(ts, p, c, src) ==
  [from |-> p, to |-> c, src |-> src,
   ok |-> src.ok /\ IsExhausted(ts, src.pos, c),
   err |-> IF src.ok
           THEN (IF IsExhausted(ts, src.pos, c) THEN "" ELSE "UnexpectedToken")
           ELSE src.err]

SourceItemUntil(ts, p, c) == SourceItemOf(ts, p, c, SourceParse(ts, p, c))

SourceItem(ts, p, e) == SourceItemUntil(ts, p, NextComma(ts, p, e))

\* ==================================================== typed descriptors
\* FontWeight::parse / FontStretch::parse (properties/font.rs): one number
\* or percentage
ScalarOfToken(n) ==
  IF ~n.ok THEN n
  ELSE IF n.val.k = "number" THEN Ok(n.val.v, n.pos)
  ELSE Err("UnexpectedToken", n.pos)

ScalarParse(ts, p, e) == ScalarOfToken(ParserNext(ts, p, e))

\* Size2D::<T>::parse (values/size.rs): T, then try_parse(T) defaulting to
\* the first value
Size2DSecond(first, second) ==
  IF second.ok THEN Ok(<<first.val, second.val>>, second.pos)
  ELSE Ok(<<first.val, first.val>>, first.pos)

Size2DFirst(ts, e, first) ==
  IF ~first.ok THEN first
  ELSE Size2DSecond(first, ScalarParse(ts, first.pos, e))

Size2DParse(ts, p, e) == Size2DFirst(ts, e, ScalarParse(ts, p, e))

\* FontStyle::parse (properties/font.rs): a style keyword
FontStyleOfToken(n) ==
  IF ~n.ok THEN n
  ELSE IF n.val.k = "ident" /\ ToAsciiLowercase(n.val.v) \in {S_italic, S_normal}
       THEN Ok(<<ToAsciiLowercase(n.val.v)>>, n.pos)
       ELSE Err("UnexpectedToken", n.pos)

FontStyleParse(ts, p, e) == FontStyleOfToken(ParserNext(ts, p, e))

\* impl Parse for UnicodeRange on the token cursor
UnicodeRangeOfText(n, r) ==
  IF r.ok THEN Ok([start |-> r.start, end |-> r.end], n.pos)
  ELSE Err("UnexpectedToken", n.pos)

UnicodeRangeOfToken(n) ==
  IF ~n.ok THEN n
  ELSE IF n.val.k = "urange" THEN UnicodeRangeOfText(n, UnicodeRangeParse(n.val.v))
  ELSE Err("UnexpectedToken", n.pos)

UnicodeRangeTokenParse(ts, p, e) == UnicodeRangeOfToken(ParserNext(ts, p, e))

\* Vec::<UnicodeRange>::parse: parse_comma_separated(UnicodeRange::parse)
RECURSIVE RangeListFrom(_, _, _, _)

RangeListAfter(ts, e, acc, c, r) ==
  IF ~r.ok THEN Err(r.err, c)
  ELSE IF c < e THEN RangeListFrom(ts, c + 1, e, Append(acc, r.val))
  ELSE Ok(Append(acc, r.val), c)

RangeListUntil(ts, p, e, acc, c) ==
  RangeListAfter(ts, e, acc, c,
                 ParseEntirely(ts, UnicodeRangeTokenParse(ts, p, c), c))

RangeListFrom(ts, p, e, acc) == RangeListUntil(ts, p, e, acc, NextComma(ts, p, e))

\* ========================================= FontFaceDeclarationParser
NoProperty == [type |-> "", name |-> <<>>, value |-> <<>>]
Property(type, nm, value) == [type |-> type, name |-> nm, value |-> value]

NoAttempt == [matched |-> FALSE, ok |-> FALSE, err |-> "", pos |-> 0,
              prop |-> NoProperty]
Attempt(type, r) ==
  [matched |-> TRUE, ok |-> r.ok, err |-> r.err, pos |-> r.pos,
   prop |-> IF r.ok THEN Property(type, <<>>, r.val) ELSE NoProperty]

NoResult == [ok |-> FALSE, err |-> "", prop |-> NoProperty]

\* The arms of the match of lines 439-451 other than "src": the typed
\* parse the property! macro runs for the (lower-cased) name n.
TypedAttempt(n, ts, p, e) ==
  CASE n = S_font_family -> Attempt("FontFamily", FontFamilyParse(ts, p, e))
    [] n = S_font_weight -> Attempt("FontWeight", Size2DParse(ts, p, e))
    [] n = S_font_style -> Attempt("FontStyle", FontStyleParse(ts, p, e))
    [] n = S_font_stretch -> Attempt("FontStretch", Size2DParse(ts, p, e))
    [] n = S_unicode_range -> Attempt("UnicodeRange", RangeListFrom(ts, p, e, <<>>))
    [] OTHER -> [NoAttempt EXCEPT !.pos = p]

\* The name parse_value matches on (match_ignore_ascii_case! { &name, ... }).
MatchedName(nm) == ToAsciiLowercase(nm)

\* line 453 left out
ResetMissing(saved, cur) == cur

\* input.reset(&state) of line 453: the cursor after it, given the saved
\* state and the cursor the failed attempt left.
ResetTo(saved, cur) == saved

\* CustomProperty::parse(name, input, options) (properties/custom.rs): the
\* name and the raw tokens from the cursor to the end of the value.
CustomParse(nm, ts, p) ==
  [ok |-> TRUE, err |-> "",
   prop |-> Property("Custom", nm, SubSeq(ts, p, Len(ts)))]

\* lines 441-444 keeping the sources parsed before the failing item
SrcFailureKeepsPartial(item) ==
  [matched |-> TRUE, ok |-> TRUE, err |-> "", pos |-> item.to,
   prop |-> Property("Source", <<>>, sources)]

\* What parse_value does with a failed src list (lines 441-444): the error
\* is dropped by `if let Ok(..)` and control falls through to line 453.
SrcFailure(item) == [matched |-> TRUE, ok |-> FALSE, err |-> item.err,
                     pos |-> item.to, prop |-> NoProperty]

\* lines 432 and 441 with `?` in place of `if let Ok(..)`: the error of the
\* typed parse is returned
FallbackPropagates(att, nm, ts, p) ==
  IF att.matched THEN [ok |-> FALSE, err |-> att.err, prop |-> NoProperty]
  ELSE CustomParse(nm, ts, p)

\* What parse_value returns once the fallback has run (lines 454-458).
FallbackResult(att, nm, ts, p) == CustomParse(nm, ts, p)

\* ---- actions
\* lines 438-451: save the state and dispatch on the name
Dispatch ==
  /\ pc = "start"
  /\ state' = pos
  /\ IF MatchedName(name) = S_src
     THEN /\ pc' = "src"
          /\ UNCHANGED <<attempt, pos>>
     ELSE /\ attempt' = TypedAttempt(MatchedName(name), toks, pos, Len(toks) + 1)
          /\ pos' = attempt'.pos
          /\ pc' = "attempted"
  /\ UNCHANGED <<name, toks, sources, items, result>>
  /\ UNCHANGED <<rangeVars, ruleVars>>

\* one turn of the loop of input.parse_comma_separated(Source::parse)
SrcItemDone(item) ==
  /\ items' = Append(items, item)
  /\ IF ~item.ok
     THEN /\ attempt' = SrcFailure(item)
          /\ pos' = item.to
          /\ pc' = "attempted"
          /\ UNCHANGED sources
     ELSE /\ sources' = Append(sources, SourceValue(item.src))
          /\ IF item.to <= Len(toks)
             THEN /\ pos' = item.to + 1
                  /\ UNCHANGED <<attempt, pc>>
             ELSE /\ pos' = item.to
                  /\ attempt' = [matched |-> TRUE, ok |-> TRUE, err |-> "",
                                 pos |-> item.to,
                                 prop |-> Property("Source", <<>>, sources')]
                  /\ pc' = "attempted"

SrcItem ==
  /\ pc = "src"
  /\ SrcItemDone(SourceItem(toks, pos, Len(toks) + 1))
  /\ UNCHANGED <<name, toks, state, result>>
  /\ UNCHANGED <<rangeVars, ruleVars>>

\* return Ok(FontFaceProperty::$property(c))
ReturnTyped ==
  /\ pc = "attempted"
  /\ attempt.ok
  /\ result' = [ok |-> TRUE, err |-> "", prop |-> attempt.prop]
  /\ pc' = "done"
  /\ UNCHANGED <<name, toks, pos, state, sources, items, attempt>>
  /\ UNCHANGED <<rangeVars, ruleVars>>

\* line 453: input.reset(&state)
Reset ==
  /\ pc = "attempted"
  /\ ~attempt.ok
  /\ pos' = ResetTo(state, pos)
  /\ pc' = "reset"
  /\ UNCHANGED <<name, toks, state, sources, items, attempt, result>>
  /\ UNCHANGED <<rangeVars, ruleVars>>

\* lines 454-458: the Custom fallback
Custom ==
  /\ pc = "reset"
  /\ result' = FallbackResult(attempt, name, toks, pos)
  /\ pos' = Len(toks) + 1
  /\ pc' = "done"
  /\ UNCHANGED <<name, toks, state, sources, items, attempt>>
  /\ UNCHANGED <<rangeVars, ruleVars>>

ParseNext == Dispatch \/ SrcItem \/ ReturnTyped \/ Reset \/ Custom

\* ---- the values parse_value is fed
A_url == <<Tok("url", <<"f",".","w","o","f","f">>)>>
A_format_kw == <<Tok("function", S_format), Tok("ident", S_woff2), Tok("close", <<>>)>>
A_format_str == <<Tok("function", <<"F","O","R","M","A","T">>),
                  Tok("string", <<"x">>), Tok("close", <<>>)>>
A_format_bad == <<Tok("function", S_format), Tok("number", <<"9","0","%">>),
                  Tok("close", <<>>)>>
A_tech == <<Tok("function", S_tech), Tok("ident", S_variations), Tok("close", <<>>)>>
A_tech_two == <<Tok("function", <<"T","e","c","h">>),
                Tok("ident", <<"P","a","l","e","t","t","e","s">>), Tok("comma", <<>>),
                Tok("ident", S_color_svg), Tok("close", <<>>)>>
A_tech_bogus == <<Tok("function", S_tech), Tok("ident", <<"b","o","g","u","s">>),
                  Tok("close", <<>>)>>
A_tech_string == <<Tok("function", S_tech), Tok("string", S_variations),
                   Tok("close", <<>>)>>
A_newline_tech == <<Tok("ws", <<"\n">>)>> \o A_tech
A_local == <<Tok("function", S_local), Tok("ident", <<"F","o","o">>), Tok("close", <<>>)>>
A_comma == <<Tok("comma", <<>>)>>
A_number == <<Tok("number", <<"9","0","%">>)>>
A_ident == <<Tok("ident", S_italic)>>
A_urange == <<Tok("urange", <<"U","+","4","?","?">>)>>

SrcAtoms == <<A_url, A_format_kw, A_format_str, A_format_bad, A_tech, A_tech_two,
              A_tech_bogus, A_tech_string, A_newline_tech, A_local, A_comma>>

DeclAtoms == <<A_url, A_format_kw, A_tech_bogus, A_local, A_comma, A_number,
               A_ident, A_urange>>

N_SRC == <<"S","R","C">>
N_Font_Family == <<"F","o","n","t","-","F","a","m","i","l","y">>
N_ascent_override == <<"a","s","c","e","n","t","-","o","v","e","r","r","i","d","e">>

DeclNames == {S_src, N_SRC, S_font_family, N_Font_Family, S_font_weight,
              S_font_style, S_font_stretch, S_unicode_range, N_ascent_override}

\* every value of at most max atoms of the alphabet
Values(alphabet, max) ==
  { Concat([i \in DOMAIN f |-> alphabet[f[i]]]) :
      f \in UNION {[1..n -> 1..Len(alphabet)] : n \in 0..max} }

ParseIdle ==
  /\ name = <<>> /\ toks = <<>> /\ pos = 1 /\ state = 1 /\ pc = "idle"
  /\ sources = <<>> /\ items = <<>> /\ attempt = NoAttempt /\ result = NoResult

RangeIdle ==
  /\ start = 0 /\ end = 0 /\ dest = <<>> /\ parsed = NoRange /\ rpc = "idle"

RuleIdle ==
  /\ properties = <<>> /\ minify = FALSE /\ out = <<>> /\ idx = 0 /\ wpc = "idle"

ParseStart ==
  /\ pos = 1 /\ state = 1 /\ pc = "start"
  /\ sources = <<>> /\ items = <<>> /\ attempt = NoAttempt /\ result = NoResult

\* ---- parse_value on the values of a src descriptor
SrcInit ==
  /\ name = S_src
  /\ toks \in Values(SrcAtoms, MaxSrcAtoms)
  /\ ParseStart /\ RangeIdle /\ RuleIdle

SpecSrc == SrcInit /\ [][ParseNext]_vars

\* ---- parse_value on every descriptor name
DeclInit ==
  /\ name \in DeclNames
  /\ toks \in Values(DeclAtoms, MaxDeclAtoms)
  /\ ParseStart /\ RangeIdle /\ RuleIdle

SpecDecl == DeclInit /\ [][ParseNext]_vars

\* ============================================== UnicodeRange round trip
\* the hex digits the code points fed to the codec are made of
DigitChoices == {0, 1, 10, 15}

RECURSIVE DigitsValue(_, _)
DigitsValue(f, n) == IF n = 0 THEN 0 ELSE f[n] + 16 * DigitsValue(f, n - 1)

\* 0x41, 0x5A, 0xFF, 0xFFFF, 0x10000, 0xF0000, 0xFFFFF, 0x100000, 0x10FFFF
PlaneEdges == {65, 90, 255, 65535, 65536, 983040, 1048575, 1048576, MaxCodePoint}

CodePoints ==
  {DigitsValue(f, MaxHexDigits) : f \in [1..MaxHexDigits -> DigitChoices]}
    \cup PlaneEdges

\* range.to_css(dest)
RangeToCss ==
  /\ rpc = "init"
  /\ dest' = UnicodeRangeToCss(start, end)
  /\ rpc' = "printed"
  /\ UNCHANGED <<start, end, parsed>>
  /\ UNCHANGED <<parseVars, ruleVars>>

\* UnicodeRange::parse on the text written
RangeParse ==
  /\ rpc = "printed"
  /\ parsed' = UnicodeRangeParse(dest)
  /\ rpc' = "parsed"
  /\ UNCHANGED <<start, end, dest>>
  /\ UNCHANGED <<parseVars, ruleVars>>

RangeNext == RangeToCss \/ RangeParse

RangeInit ==
  /\ start \in CodePoints /\ end \in CodePoints
  /\ start <= end /\ end <= MaxCodePoint
  /\ dest = <<>> /\ parsed = NoRange /\ rpc = "init"
  /\ ParseIdle /\ RuleIdle

SpecRange == RangeInit /\ [][RangeNext]_vars

\* ================================================= FontFaceRule::to_css
\* What the printer was handed: k is "str" (write_str), "char" (write_char),
\* "ws" (whitespace()), "nl" (newline()) or "prop" (the text one
\* FontFaceProperty::to_css wrote); v is the text.
Frag(k, v) == [k |-> k, v |-> v]

\* Printer::whitespace and Printer::newline write nothing when minifying
Whitespace(min) == IF min THEN <<>> ELSE <<Frag("ws", <<" ">>)>>
Newline(min) == IF min THEN <<>> ELSE <<Frag("nl", <<"\n">>)>>

\* Printer::delim(c, false): the character, then whitespace()
Delim(c, min) == IF min THEN <<c>> ELSE <<c, " ">>

\* TokenList::to_css (properties/custom.rs) for one token of a raw value
TokenText(t) ==
  CASE t.k = "url" -> <<"u","r","l","(">> \o t.v \o <<")">>
    [] t.k = "function" -> t.v \o <<"(">>
    [] t.k = "close" -> <<")">>
    [] t.k = "comma" -> <<",">>
    [] t.k = "string" -> <<"\"">> \o t.v \o <<"\"">>
    [] OTHER -> t.v

\* Vec::<UnicodeRange>::to_css (traits.rs): the ranges joined by delim(',')
RECURSIVE RangesToCss(_, _, _)
RangesToCss(value, i, min) ==
  IF i > Len(value) THEN <<>>
  ELSE UnicodeRangeToCss(value[i].start, value[i].end)
       \o (IF i < Len(value) THEN Delim(",", min) ELSE <<>>)
       \o RangesToCss(value, i + 1, min)

\* impl ToCss for FontFaceProperty, for the descriptors the rules are made of
PropertyToCss(prop, min) ==
  CASE prop.type = "FontStyle" ->
         S_font_style \o Delim(":", min) \o Concat(prop.value)
    [] prop.type = "UnicodeRange" ->
         S_unicode_range \o Delim(":", min) \o RangesToCss(prop.value, 1, min)
    [] prop.type = "Custom" ->
         prop.name \o Delim(":", min)
           \o Concat([i \in DOMAIN prop.value |-> TokenText(prop.value[i])])

\* line 483 without `|| !dest.minify`
WritesSemicolonNotLast(i, len, min) == i # len - 1

\* line 483: whether ';' follows the descriptor at index i of len
WritesSemicolon(i, len, min) == i # len - 1 \/ ~min

\* lines 474-478
RuleOpen ==
  /\ wpc = "begin"
  /\ out' = <<Frag("str", <<"@","f","o","n","t","-","f","a","c","e">>)>>
              \o Whitespace(minify) \o <<Frag("char", <<"{">>)>>
  /\ idx' = 0
  /\ wpc' = "loop"
  /\ UNCHANGED <<properties, minify>>
  /\ UNCHANGED <<rangeVars, parseVars>>

\* lines 480-486: one turn of the loop
RuleProperty ==
  /\ wpc = "loop"
  /\ idx < Len(properties)
  /\ out' = out \o Newline(minify)
                \o <<Frag("prop", PropertyToCss(properties[idx + 1], minify))>>
                \o (IF WritesSemicolon(idx, Len(properties), minify)
                    THEN <<Frag("char", <<";">>)>> ELSE <<>>)
  /\ idx' = idx + 1
  /\ UNCHANGED <<properties, minify, wpc>>
  /\ UNCHANGED <<rangeVars, parseVars>>

\* lines 487-489
RuleClose ==
  /\ wpc = "loop"
  /\ idx = Len(properties)
  /\ out' = out \o Newline(minify) \o <<Frag("char", <<"}">>)>>
  /\ wpc' = "done"
  /\ UNCHANGED <<properties, minify, idx>>
  /\ UNCHANGED <<rangeVars, parseVars>>

RuleNext == RuleOpen \/ RuleProperty \/ RuleClose

\* the descriptors the rules are made of
RuleProperties ==
  << Property("FontStyle", <<>>, <<S_italic>>),
     Property("UnicodeRange", <<>>, <<[start |-> 0, end |-> 255], [start |-> 65, end |-> 90]>>),
     Property("Custom", N_ascent_override, A_number) >>

RuleInit ==
  /\ properties \in UNION {[1..n -> {RuleProperties[i] : i \in DOMAIN RuleProperties}] : n \in 0..MaxProperties}
  /\ minify \in BOOLEAN
  /\ out = <<>> /\ idx = 0 /\ wpc = "begin"
  /\ RangeIdle /\ ParseIdle

SpecRule == RuleInit /\ [][RuleNext]_vars

\* ================================================================ claims
\* ---- UnicodeRange (SpecRange)

\* C1: for every range 0 <= start <= end <= 0x10FFFF, parsing the text that
\* UnicodeRange::to_css wrote for it yields exactly {start, end} again.
C1_RoundTrip ==
  rpc = "parsed" => parsed = [ok |-> TRUE, start |-> start, end |-> end]

\* a range with a non-zero prefix was written in the wildcard form and read back
C1_Witness ==
  /\ rpc = "parsed" /\ start > 0 /\ start < end
  /\ \E i \in DOMAIN dest : dest[i] = "?"
  /\ dest[3] # "?"
  /\ parsed.ok /\ parsed.start = start /\ parsed.end = end

\* the low 4k bits of s are zero, those of e are one, and s and e agree above
WildcardFits(s, e, k) ==
  /\ s % Pow(16, k) = 0
  /\ e % Pow(16, k) = Pow(16, k) - 1
  /\ s \div Pow(16, k) = e \div Pow(16, k)

RECURSIVE Marks(_)
Marks(k) == IF k = 0 THEN <<>> ELSE <<"?">> \o Marks(k - 1)

\* the text the claim describes for the range {s, e}
DescribedForm(s, e) ==
  IF s = e THEN <<"U", "+">> \o UpperHex(s)
  ELSE IF \E k \in 1..7 : WildcardFits(s, e, k)
       THEN LET k == CHOOSE k \in 1..7 : WildcardFits(s, e, k)
            IN <<"U", "+">>
               \o (IF s \div Pow(16, k) = 0 THEN <<>> ELSE UpperHex(s \div Pow(16, k)))
               \o Marks(k)
       ELSE <<"U", "+">> \o UpperHex(s) \o <<"-">> \o UpperHex(e)

\* C8: to_css writes 'U+hex(start)' when start = end, the wildcard form
\* 'U+' hex(start >> 4k) (left out when zero) and k '?' exactly when
\* start < end and some k >= 1 has the low 4k bits of start all zero, those
\* of end all one and the bits above equal, and 'U+hex(start)-hex(end)'
\* otherwise; {0x41,0x41} gives U+41, {0,0xFF} gives U+??, {0x41,0x5A} gives
\* U+41-5A.
C8_Form ==
  rpc \in {"printed", "parsed"} =>
    /\ dest = DescribedForm(start, end)
    /\ (start = 65 /\ end = 65) => dest = <<"U","+","4","1">>
    /\ (start = 0 /\ end = 255) => dest = <<"U","+","?","?">>
    /\ (start = 65 /\ end = 90) => dest = <<"U","+","4","1","-","5","A">>

\* a range whose low digits are 0 and F but whose higher digits differ was
\* written in the plain form
C8_Witness ==
  /\ rpc = "printed"
  /\ start < end /\ start % 16 = 0 /\ end % 16 = 15
  /\ start \div 16 # end \div 16
  /\ ~ \E k \in 1..7 : WildcardFits(start, end, k)
  /\ \E i \in DOMAIN dest : dest[i] = "-"

\* ---- the items of a src list (SpecSrc)
IsNotWs(t) == t.k # "ws"

\* the tokens of the item that runs from p up to e, white space left out
ItemTokens(ts, p, e) == SelectSeq(SubSeq(ts, p, e - 1), IsNotWs)

IsFunction(t, fname) == t.k = "function" /\ ToAsciiLowercase(t.v) = fname

TechKeywords ==
  {S_features_opentype, S_features_aat, S_features_graphite,
   S_color_colrv0, S_color_colrv1, S_color_svg, S_color_sbix, S_color_cbdt,
   S_variations, S_palettes, S_incremental}

IsTechKeyword(t) == t.k = "ident" /\ ToAsciiLowercase(t.v) \in TechKeywords

\* it[a..b] is a comma-separated list of technology keywords
IsTechList(it, a, b) ==
  /\ a <= b /\ (b - a) % 2 = 0
  /\ \A j \in a..b : IF (j - a) % 2 = 0 THEN IsTechKeyword(it[j]) ELSE it[j].k = "comma"

\* the item is written url(..) tech(<keywords>) format(..
TechBeforeFormatIn(it) ==
  \E n \in 4..Len(it) - 1 :
    /\ it[1].k = "url"
    /\ IsFunction(it[2], S_tech)
    /\ IsTechList(it, 3, n - 1)
    /\ it[n].k = "close"
    /\ IsFunction(it[n + 1], S_format)

TechBeforeFormat(item) == TechBeforeFormatIn(ItemTokens(toks, item.from, item.to))

\* the item starts local(<family-name>): one string, or identifiers
LocalShapeIn(it) ==
  \E n \in 3..Len(it) :
    /\ IsFunction(it[1], S_local)
    /\ it[n].k = "close"
    /\ \/ n = 3 /\ it[2].k = "string"
       \/ \A j \in 2..n - 1 : it[j].k = "ident"

LocalShape(item) == LocalShapeIn(ItemTokens(toks, item.from, item.to))

\* the next token the UrlSource attempt of the item left is format(
FormatLeft(item) ==
  LET q == SkipWs(toks, item.src.url.pos, item.to)
  IN q < item.to /\ IsFunction(toks[q], S_format)

\* C2: an item in which tech(...) textually precedes format(...) fails with
\* a MalformedAtRuleBody (AtRuleBodyInvalid) error.
C2_TechBeforeFormatFails ==
  \A i \in DOMAIN items :
    TechBeforeFormat(items[i]) =>
      /\ ~items[i].src.ok
      /\ items[i].src.err = "AtRuleBodyInvalid"

\* C7: FontTechnology::parse succeeds only on an identifier that
\* case-insensitively equals one of the 11 keywords; any other identifier
\* and any other token (a string spelling a keyword too) is rejected with
\* UnexpectedToken, and a url source whose tech() list holds a rejected
\* entry yields no UrlSource.
C7_TechnologyKeywordsOnly ==
  \A i \in DOMAIN items :
    LET url == items[i].src.url
    IN /\ \A c \in DOMAIN url.calls :
            /\ url.calls[c].ok <=> IsTechKeyword(url.calls[c].tok)
            /\ (~url.calls[c].ok /\ url.calls[c].tok.k # "eof")
                 => url.calls[c].err = "UnexpectedToken"
       /\ (\E c \in DOMAIN url.calls : ~url.calls[c].ok)
            => /\ ~url.ok
               /\ items[i].src.kind # "Url"
               /\ url.err = "UnexpectedToken"

\* a string that spells a keyword was rejected and the item gave no UrlSource
C7_Witness ==
  \E i \in DOMAIN items :
    \E c \in DOMAIN items[i].src.url.calls :
      LET call == items[i].src.url.calls[c]
      IN /\ call.tok.k = "string"
         /\ ToAsciiLowercase(call.tok.v) \in TechKeywords
         /\ ~call.ok /\ call.err = "UnexpectedToken"
         /\ ~items[i].src.url.ok /\ ~items[i].src.ok

\* C9: Source::parse tries the URL form first; an AtRuleBodyInvalid error of
\* that attempt is returned at once and local() is not tried; after any
\* other error the cursor is back at the start of the item, which must then
\* be local(<family-name>), else Source::parse fails.
C9_UrlThenLocal ==
  \A i \in DOMAIN items :
    LET s == items[i].src
    IN /\ s.url.ok => (s.ok /\ s.kind = "Url" /\ ~s.local)
       /\ (~s.url.ok /\ s.url.err = "AtRuleBodyInvalid")
            => (~s.ok /\ s.err = "AtRuleBodyInvalid" /\ ~s.local)
       /\ (~s.url.ok /\ s.url.err # "AtRuleBodyInvalid")
            => /\ s.local
               /\ s.ok <=> LocalShape(items[i])
               /\ s.ok => s.kind = "Local"

\* the URL attempt failed after reading a token, and the item was then
\* parsed from its start as local(..)
C9_Witness ==
  \E i \in DOMAIN items :
    LET s == items[i].src
    IN /\ ~s.url.ok /\ s.url.err = "UnexpectedToken" /\ s.url.pos > items[i].from
       /\ s.local /\ s.ok /\ s.kind = "Local" /\ s.family # <<>>

\* C10: format() is tried before tech() on a cursor that only moves
\* forward: when both locations are recorded the one of tech is never
\* earlier (by line, then column) than the one of format, the ordering
\* violation branch is never taken, and an item written tech() before
\* format() is parsed as a UrlSource without format whose format( is left
\* unconsumed.
C10_OrderingBranchDead ==
  \A i \in DOMAIN items :
    LET url == items[i].src.url
    IN /\ (url.format_location.set /\ url.tech_location.set)
            => /\ url.tech_location.line >= url.format_location.line
               /\ url.tech_location.line = url.format_location.line
                    => url.tech_location.column >= url.format_location.column
       /\ url.err # "AtRuleBodyInvalid"
       /\ url.tech_location.set => url.format_location.set
       /\ TechBeforeFormat(items[i])
            => /\ url.ok /\ ~url.format.present /\ url.tech # <<>>
               /\ FormatLeft(items[i])

\* both locations were recorded, tech on a later line and at a smaller
\* column than format
C10_Witness ==
  \E i \in DOMAIN items :
    LET url == items[i].src.url
    IN /\ url.format_location.set /\ url.tech_location.set
       /\ url.tech_location.line > url.format_location.line
       /\ url.tech_location.column < url.format_location.column
       /\ url.ok /\ url.format.present /\ url.tech # <<>>

\* ---- parse_value (SpecDecl)
KnownDescriptors ==
  {S_src, S_font_family, S_font_weight, S_font_style, S_font_stretch, S_unicode_range}

PropertyTypes ==
  {"Source", "FontFamily", "FontStyle", "FontWeight", "FontStretch",
   "UnicodeRange", "Custom"}

IsSrc == ToAsciiLowercase(name) = S_src

SomeItemFailed == \E i \in DOMAIN items : ~items[i].ok

IsCustomOfWholeValue ==
  /\ result.ok
  /\ result.prop = [type |-> "Custom", name |-> name, value |-> toks]

\* C3: parse_value returns exactly one FontFaceProperty and never an error,
\* whatever the name and the value: every path that returns no typed
\* descriptor ends in the Custom fallback, which does not fail.
C3_NeverFails ==
  /\ pc \in {"start", "src", "attempted", "reset", "done"}
  /\ pc # "done" => result = NoResult
  /\ pc = "done" =>
       /\ result.ok /\ result.err = ""
       /\ result.prop.type \in PropertyTypes
       /\ ~attempt.ok => result.prop.type = "Custom"

\* a recognized descriptor other than src whose typed parse failed on its
\* first token came back as a Custom descriptor
C3_Witness ==
  /\ pc = "done" /\ ~IsSrc
  /\ attempt.matched /\ ~attempt.ok /\ attempt.err = "UnexpectedToken"
  /\ result.ok /\ result.prop.type = "Custom"

\* C4 as stated: when an item of a src list fails to parse, the error
\* escapes parse_value to its caller.
C4_SrcErrorEscapes ==
  (pc = "done" /\ IsSrc /\ SomeItemFailed) => ~result.ok

\* C4 as amended: when an item of a src list fails to parse, the whole src
\* descriptor is aborted with no partial source list, and the error does
\* not escape: as for every other recognized descriptor the cursor is
\* rewound and the whole value is kept as a Custom descriptor; a Source
\* descriptor is returned only when every item parsed, and holds them all.
C4_SrcErrorRecovered ==
  pc = "done" =>
    /\ (IsSrc /\ SomeItemFailed) => IsCustomOfWholeValue
    /\ (IsSrc /\ result.prop.type = "Source")
         => /\ ~SomeItemFailed
            /\ Len(result.prop.value) = Len(items)
            /\ items[Len(items)].to = Len(toks) + 1
    /\ (attempt.matched /\ ~attempt.ok) => IsCustomOfWholeValue
    /\ result.err = ""

\* the second item of a src list failed after the first had parsed, and the
\* descriptor came back as a Custom descriptor holding the whole value
C4_Witness ==
  /\ pc = "done" /\ IsSrc
  /\ Len(items) = 2 /\ items[1].ok /\ ~items[2].ok
  /\ sources # <<>>
  /\ IsCustomOfWholeValue

\* C5: when the name is unrecognized or the matched typed parse fails, after
\* however many tokens, the cursor is put back to the saved position and
\* the Custom descriptor carries the name verbatim and the whole value from
\* that position; names match the six known descriptors case-insensitively.
C5_RewindAndCustom ==
  /\ pc \in {"attempted", "reset", "done"}
       => (attempt.matched <=> ToAsciiLowercase(name) \in KnownDescriptors)
  /\ pc = "reset" => (pos = state /\ state = 1)
  /\ pc = "done" =>
       /\ (~attempt.matched \/ ~attempt.ok) <=> result.prop.type = "Custom"
       /\ result.prop.type = "Custom"
            => /\ result.prop.name = name
               /\ result.prop.value = SubSeq(toks, state, Len(toks))
       /\ (name = N_ascent_override /\ toks = A_number)
            => result.prop = [type |-> "Custom", name |-> N_ascent_override,
                              value |-> A_number]

\* a descriptor whose name was matched in another case failed after reading
\* more than one token, and the Custom descriptor holds every token
C5_Witness ==
  /\ pc = "done"
  /\ name # ToAsciiLowercase(name)
  /\ attempt.matched /\ ~attempt.ok /\ attempt.pos > state + 1
  /\ result.prop.type = "Custom" /\ result.prop.name = name
  /\ result.prop.value = toks /\ Len(toks) > 1

\* ---- FontFaceRule::to_css (SpecRule)
IsProp(f) == f.k = "prop"
IsSemicolon(f) == f = [k |-> "char", v |-> <<";">>]

\* the fragment at j is the text of the last descriptor written
IsLastProp(j) == \A j2 \in DOMAIN out : j2 > j => ~IsProp(out[j2])

\* C6: the descriptors are written in their stored order, one entry for
\* each with duplicates kept, and a ';' follows every descriptor, except
\* that when minifying none follows the last one.
C6_OrderAndSemicolons ==
  wpc = "done" =>
    /\ Len(SelectSeq(out, IsProp)) = Len(properties)
    /\ \A i \in DOMAIN properties :
         SelectSeq(out, IsProp)[i].v = PropertyToCss(properties[i], minify)
    /\ \A j \in DOMAIN out :
         IsProp(out[j]) =>
           ((j < Len(out) /\ IsSemicolon(out[j + 1])) <=> ~(minify /\ IsLastProp(j)))
    /\ \A j \in DOMAIN out :
         IsSemicolon(out[j]) => (j > 1 /\ IsProp(out[j - 1]))
    /\ out[Len(out)] = [k |-> "char", v |-> <<"}">>]

\* a rule of three descriptors, two of them equal, was written minified
C6_Witness ==
  /\ wpc = "done" /\ minify
  /\ Len(properties) = 3 /\ properties[1] = properties[2]
  /\ Len(SelectSeq(out, IsSemicolon)) = 2
  /\ IsProp(out[Len(out) - 1])
====
